---- MODULE Spec2Model ----
(***************************************************************************)
(* The document store of src/src/composables/useDocuments.ts               *)
(* (useDocuments): a client-side list of document records kept in step     *)
(* with a remote metadata table (hf.documents) and a remote blob store     *)
(* (storage bucket 'documents').                                           *)
(*                                                                         *)
(* Every async function is cut at its awaits.  The synchronous code up to  *)
(* an await is one action (it ends by sending a request), the remote       *)
(* service answering that request is one action, and the code from the     *)
(* await to the next await (or to the end of the function, catch and       *)
(* finally included) is one action.  Calls may overlap freely: nothing in  *)
(* the composable serialises them.                                         *)
(***************************************************************************)
EXTENDS Integers, Sequences, FiniteSets, TLC

(***************************************************************************)
(* Bounds of the model.                                                    *)
(***************************************************************************)
\* number of calls of fetch / upload / download / delete made in one run
MaxCalls == 2

Calls == 1..MaxCalls

(***************************************************************************)
(* Values.  Strings that the code takes apart or puts together (symbol     *)
(* root, user id, file name, storage path) are sequences of one-character  *)
(* strings.  An optional value is <<>> (undefined / null) or <<v>>.        *)
(***************************************************************************)
None == <<>>
Some(v) == <<v>>

\* JavaScript truthiness of an optional string: undefined and '' are falsy
Truthy(opt) == opt # None /\ opt[1] # <<>>

NullError == "<null>"

\* the (symbolRoot, userId?) a caller passes to fetchDocuments; userId is
\* omitted, empty or a user id
FetchArgs ==
  { <<<<"A">>, None>>, <<<<"A">>, Some(<<>>)>>, <<<<"A">>, Some(<<"u">>)>>,
    <<<<"B">>, Some(<<"v">>)>> }

\* the (file, symbolRoot, userId, description?) a caller passes to
\* uploadDocument; the two files get the same sanitized name
UploadArgs ==
  { <<[name |-> <<"a", " ">>, size |-> 1536, type |-> "application/pdf"],
      <<"A">>, <<"u">>, Some(<<>>)>>,
    <<[name |-> <<"a", "_">>, size |-> 0, type |-> "text/plain"],
      <<"A">>, <<"u">>, Some(<<"n">>)>> }

(***************************************************************************)
(* storagePath of uploadDocument.                                          *)
(***************************************************************************)
Letters ==
  {"a","b","c","d","e","f","g","h","i","j","k","l","m",
   "n","o","p","q","r","s","t","u","v","w","x","y","z",
   "A","B","C","D","E","F","G","H","I","J","K","L","M",
   "N","O","P","Q","R","S","T","U","V","W","X","Y","Z"}

DigitChars == <<"0","1","2","3","4","5","6","7","8","9">>

\* the characters the regular expression [^a-zA-Z0-9.-] leaves alone
SafeChars == Letters \cup {DigitChars[i] : i \in 1..10} \cup {".", "-"}

\* replace without the g flag: only the first match is replaced
SanitizedFirstMatch(name) ==
  [i \in 1..Len(name) |->
     IF name[i] \notin SafeChars /\ \A j \in 1..(i - 1) : name[j] \in SafeChars
       THEN "_" ELSE name[i]]

\* file.name.replace(/[^a-zA-Z0-9.-]/g, '_')
SanitizedFileName(name) ==
  [i \in 1..Len(name) |-> IF name[i] \in SafeChars THEN name[i] ELSE "_"]

\* the decimal digits of a non-negative integer, as template literals print it
RECURSIVE Decimal(_)
Decimal(n) ==
  IF n < 10 THEN <<DigitChars[n + 1]>>
  ELSE Decimal(n \div 10) \o <<DigitChars[(n % 10) + 1]>>

\* the template with "-" between the timestamp and the name
StoragePathDashed(symbolRoot, userId, timestamp, fileName) ==
  symbolRoot \o <<"/">> \o userId \o <<"/">> \o Decimal(timestamp)
    \o <<"-">> \o SanitizedFileName(fileName)

\* `${symbolRoot}/${userId}/${timestamp}_${sanitizedFileName}`
StoragePath(symbolRoot, userId, timestamp, fileName) ==
  symbolRoot \o <<"/">> \o userId \o <<"/">> \o Decimal(timestamp)
    \o <<"_">> \o SanitizedFileName(fileName)

(***************************************************************************)
(* Document rows.                                                          *)
(***************************************************************************)
Document(id, userId, symbolRoot, file, path, uploadedAt, description) ==
  [ id |-> id, user_id |-> userId, symbol_root |-> symbolRoot,
    file_name |-> file.name, file_size |-> file.size, file_type |-> file.type,
    storage_path |-> path, uploaded_at |-> uploadedAt,
    description |-> description ]

\* description: description || null
DescriptionOrNull(description) ==
  IF Truthy(description) THEN description ELSE None

NoFile == [name |-> <<>>, size |-> 0, type |-> ""]
NoDocument == Document(0, <<>>, <<>>, NoFile, <<>>, 0, None)

\* rows that exist in the table, with their blobs, when the composable is made
OldFile == [name |-> <<"o">>, size |-> 1024, type |-> "image/png"]
InitialRows ==
  { Document(1, <<"v">>, <<"A">>, OldFile,
             StoragePath(<<"A">>, <<"v">>, 0, OldFile.name), 1, None),
    Document(2, <<"u">>, <<"A">>, OldFile,
             StoragePath(<<"A">>, <<"u">>, 1, OldFile.name), 2, Some(<<"n">>)),
    Document(3, <<"u">>, <<"B">>, OldFile,
             StoragePath(<<"B">>, <<"u">>, 2, OldFile.name), 3, None) }

(***************************************************************************)
(* Errors and responses of the remote services.  An error the client       *)
(* library reports is an Error instance (StorageError, newer               *)
(* PostgrestError) or a plain object (older PostgrestError).               *)
(***************************************************************************)
NoErr == [present |-> FALSE, isError |-> FALSE, message |-> ""]
StorageErrors == {[present |-> TRUE, isError |-> TRUE, message |-> "storage error"]}
DuplicateError ==
  [present |-> TRUE, isError |-> TRUE, message |-> "The resource already exists"]
NotFoundError ==
  [present |-> TRUE, isError |-> TRUE, message |-> "Object not found"]
PostgrestErrors ==
  { [present |-> TRUE, isError |-> TRUE,  message |-> "postgrest error"],
    [present |-> TRUE, isError |-> FALSE, message |-> "postgrest error"] }

\* { data, error } of a finished request; data is null or a list of rows
Response(err, isNull, rows) == [error |-> err, isNull |-> isNull, rows |-> rows]
NoResponse == Response(NoErr, TRUE, <<>>)

\* err instanceof Error ? err.message : fallback
ErrorMessage(err, fallback) == IF err.isError THEN err.message ELSE fallback

(***************************************************************************)
(* The state.                                                              *)
(***************************************************************************)
VARIABLES
  documents,      \* ref<Document[]>: the local list
  isLoading,      \* ref(false)
  error,          \* ref<string | null>
  uploadProgress, \* ref(0)
  table,          \* the rows of hf.documents
  blobs,          \* the paths that hold an object in the bucket
  nextId,         \* the next id the table assigns
  now,            \* the clock, in milliseconds
  read,           \* the clock has been read since it last advanced
  calls,          \* the frame of every call of the composable's functions
  started,        \* how many calls have been made
  finished,       \* the frame of the call the last step completed, if any
  alone,          \* no call has overlapped another since all calls were done
  prevDocuments,  \* the local list before the last step
  scope,          \* the filter of the fetch that last filled the local list
  trial,          \* a function of the composable tried apart from the store
  panel           \* the Documents panel's view of one row

store == <<documents, isLoading, error, uploadProgress>>
remote == <<table, blobs, nextId>>
clock == <<now, read>>
vars == <<documents, isLoading, error, uploadProgress, table, blobs, nextId,
          now, read, calls, started, finished, alone,
          prevDocuments, scope, trial, panel>>

\* what the steps of the store's calls leave alone
apart == <<trial, panel>>

IdleFrame ==
  [ op |-> "none", pc |-> "idle", req |-> "none",
    symbolRoot |-> <<>>, userId |-> None, file |-> NoFile,
    description |-> None, document |-> NoDocument, storagePath |-> <<>>,
    resp |-> NoResponse, outcome |-> "pending", ret |-> None,
    issued |-> <<>>, failed |-> "none", hadRow |-> FALSE,
    unchanged |-> TRUE, agreed |-> FALSE ]

DoneFrame == [IdleFrame EXCEPT !.pc = "done"]

\* the refs as useDocuments makes them, the remote services as they are then
StoreInit ==
  /\ documents = <<>>
  /\ isLoading = FALSE
  /\ error = NullError
  /\ uploadProgress = 0
  /\ table = InitialRows
  /\ blobs = {r.storage_path : r \in InitialRows}
  /\ nextId = 4
  /\ read = TRUE
  /\ started = 0
  /\ finished = IdleFrame
  /\ alone = TRUE
  /\ prevDocuments = <<>>
  /\ scope = None

Unused == [stage |-> "unused"]

Init ==
  /\ StoreInit
  /\ now = 3
  /\ calls = [c \in Calls |-> IdleFrame]
  /\ trial = Unused
  /\ panel = Unused

InFlight == {c \in DOMAIN calls : calls[c].pc \in {"sent", "replied"}}

(***************************************************************************)
(* The clock.  Only the order of the readings made of it matters, so it    *)
(* advances only between readings: a request takes at least a millisecond  *)
(* to be answered, hence a reading made after an answer is later than      *)
(* every reading made before it, while two readings with no answer in      *)
(* between (Date.now() in two calls made back to back) may be equal.       *)
(***************************************************************************)
\* the time when a request is answered
Later == IF read THEN now + 1 ELSE now

\* an answer arrives and nobody reads the clock
TimePasses == now' = Later /\ read' = FALSE

\* an answer arrives and the service stamps it with the time
TimeStamped == now' = Later /\ read' = TRUE

\* Date.now()
DateNow == now' = now /\ read' = TRUE

(***************************************************************************)
(* Bookkeeping shared by the steps of a call.                              *)
(***************************************************************************)
\* the frame of a call of function op that has sent its first request req
Frame(op, req) ==
  [IdleFrame EXCEPT !.op = op, !.pc = "sent", !.req = req, !.issued = <<req>>]

\* the ids of the records of a list, and of the rows of a set
ListIds(list) == {list[i].id : i \in 1..Len(list)}
RowIds(rows) == {r.id : r \in rows}

\* the filter a fetch applies, as the query of lines 27-36 builds it
Filter(symbolRoot, userId) ==
  [symbolRoot |-> symbolRoot, userId |-> IF Truthy(userId) THEN userId ELSE None]

\* the rows of the table that the filter of the local list selects
InScope(rows) ==
  {r \in rows : /\ scope # None
                /\ r.symbol_root = scope[1].symbolRoot
                /\ scope[1].userId # None => r.user_id = scope[1].userId[1]}

\* the local list holds the records of the rows of its filter, no others
Agrees(list, rows) == scope # None /\ ListIds(list) = RowIds(InScope(rows))

\* a call is made and runs to its first await: f is its frame
Begin(c, f) ==
  /\ c = started + 1
  /\ calls[c].pc = "idle"
  /\ started' = c
  /\ calls' = [calls EXCEPT ![c] = [f EXCEPT !.unchanged = (documents' = documents),
                                             !.agreed = Agrees(documents, table)]]
  /\ alone' = (InFlight = {})
  /\ finished' = IdleFrame
  /\ prevDocuments' = documents
  /\ UNCHANGED <<scope, apart>>

\* the code reaches its next await: request req is sent
Send(c, req) ==
  /\ calls' = [calls EXCEPT ![c].pc = "sent", ![c].req = req,
                            ![c].issued = Append(@, req),
                            ![c].unchanged = @ /\ (documents' = documents)]
  /\ finished' = IdleFrame
  /\ prevDocuments' = documents
  /\ UNCHANGED <<started, alone, scope, apart>>

\* the remote service answers call c's request with response r; the frame
\* notes the first request of the call that was answered with an error
Reply(c, r) ==
  /\ calls' = [calls EXCEPT ![c].pc = "replied", ![c].resp = r,
                            ![c].failed = IF r.error.present /\ @ = "none"
                                            THEN calls[c].req ELSE @]
  /\ finished' = IdleFrame
  /\ prevDocuments' = documents
  /\ UNCHANGED <<store, started, alone, scope, apart>>

\* the function ends: it returns ret, or throws when outcome says so.  The
\* frame is kept, as it was on return, until the next step and then dropped
End(c, outcome, ret) ==
  /\ finished' = [calls[c] EXCEPT !.pc = "done", !.outcome = outcome,
                                  !.ret = ret,
                                  !.unchanged = @ /\ (documents' = documents)]
  /\ calls' = [calls EXCEPT ![c] = DoneFrame]
  /\ prevDocuments' = documents
  /\ scope' = IF calls[c].op = "fetch" /\ ~calls[c].resp.error.present
                THEN Some(Filter(calls[c].symbolRoot, calls[c].userId))
                ELSE scope
  /\ UNCHANGED <<started, alone, apart>>

\* the code after an await runs when the awaited request has been answered
Resumes(c, op, req) ==
  /\ calls[c].op = op
  /\ calls[c].pc = "replied"
  /\ calls[c].req = req

\* the remote service takes up a request that has been sent
Serves(c, req) ==
  /\ calls[c].pc = "sent"
  /\ calls[c].req = req

\* a finally block that leaves isLoading as it is
FinallyMissing == UNCHANGED isLoading

\* finally { isLoading.value = false }
Finally == isLoading' = FALSE

(***************************************************************************)
(* fetchDocuments(symbolRoot, userId?)                                     *)
(***************************************************************************)
\* the order with ascending: true
RECURSIVE OrderAscending(_)
OrderAscending(rows) ==
  IF rows = {} THEN <<>>
  ELSE LET first == CHOOSE r \in rows :
                      \A q \in rows : r.uploaded_at <= q.uploaded_at
       IN  <<first>> \o OrderAscending(rows \ {first})

\* .order('uploaded_at', { ascending: false })
RECURSIVE OrderDescending(_)
OrderDescending(rows) ==
  IF rows = {} THEN <<>>
  ELSE LET first == CHOOSE r \in rows :
                      \A q \in rows : q.uploaded_at <= r.uploaded_at
       IN  <<first>> \o OrderDescending(rows \ {first})

\* .eq('symbol_root', symbolRoot), and .eq('user_id', userId) if (userId)
Selected(rows, symbolRoot, userId) ==
  {r \in rows : /\ r.symbol_root = symbolRoot
                /\ Truthy(userId) => r.user_id = userId[1]}

\* data || []
DataOrEmpty(resp) == IF resp.isNull THEN <<>> ELSE resp.rows

\* a catch block that also empties the list
FetchCatchClearing(err) ==
  /\ error' = ErrorMessage(err, "Failed to fetch documents")
  /\ documents' = <<>>
  /\ UNCHANGED uploadProgress

\* catch (err) of fetchDocuments
FetchCatch(err) ==
  /\ error' = ErrorMessage(err, "Failed to fetch documents")
  /\ UNCHANGED <<documents, uploadProgress>>

FetchStart(c, symbolRoot, userId) ==
  /\ isLoading' = TRUE
  /\ error' = NullError
  /\ UNCHANGED <<documents, uploadProgress, remote, clock>>
  /\ Begin(c, [Frame("fetch", "select") EXCEPT !.symbolRoot = symbolRoot,
                                               !.userId = userId])

\* the table answers the query: the rows in order (null stands for no rows
\* in some answers), or an error
ServeSelect(c) ==
  /\ Serves(c, "select")
  /\ LET rows == OrderDescending(
                   Selected(table, calls[c].symbolRoot, calls[c].userId))
     IN  \E r \in {Response(NoErr, FALSE, rows)}
                    \cup (IF rows = <<>> THEN {Response(NoErr, TRUE, <<>>)} ELSE {})
                    \cup {Response(e, TRUE, <<>>) : e \in PostgrestErrors} :
           Reply(c, r)
  /\ TimePasses
  /\ UNCHANGED remote

\* the code after the query, were it to add the rows to the list it has
FetchResumeAppending(c) ==
  /\ Resumes(c, "fetch", "select")
  /\ LET resp == calls[c].resp
     IN  /\ IF resp.error.present
              THEN FetchCatch(resp.error)
              ELSE /\ documents' = documents \o DataOrEmpty(resp)
                   /\ UNCHANGED <<error, uploadProgress>>
         /\ Finally
         /\ End(c, "returned", None)
  /\ UNCHANGED <<remote, clock>>

FetchResume(c) ==
  /\ Resumes(c, "fetch", "select")
  /\ LET resp == calls[c].resp
     IN  /\ IF resp.error.present
              THEN FetchCatch(resp.error)
              ELSE /\ documents' = DataOrEmpty(resp)
                   /\ UNCHANGED <<error, uploadProgress>>
         /\ Finally
         /\ End(c, "returned", None)
  /\ UNCHANGED <<remote, clock>>

(***************************************************************************)
(* uploadDocument(file, symbolRoot, userId, description?)                  *)
(***************************************************************************)
\* documents.value.push(data)
Push(list, data) == list \o <<data>>

\* documents.value.unshift(data)
Unshift(list, data) == <<data>> \o list

\* the row .insert({...}) asks for, as the table stores it
InsertedRow(f, id, uploadedAt) ==
  Document(id, f.userId[1], f.symbolRoot, f.file, f.storagePath, uploadedAt,
           DescriptionOrNull(f.description))

\* a catch block that also empties the list
UploadCatchClearing(err) ==
  /\ error' = ErrorMessage(err, "Failed to upload document")
  /\ documents' = <<>>
  /\ UNCHANGED uploadProgress

\* catch (err) of uploadDocument, up to the throw
UploadCatch(err) ==
  /\ error' = ErrorMessage(err, "Failed to upload document")
  /\ UNCHANGED <<documents, uploadProgress>>

UploadStart(c, file, symbolRoot, userId, description) ==
  /\ isLoading' = TRUE
  /\ error' = NullError
  /\ uploadProgress' = 0
  /\ DateNow
  /\ UNCHANGED <<documents, remote>>
  /\ Begin(c, [Frame("upload", "upload") EXCEPT
                 !.file = file, !.symbolRoot = symbolRoot,
                 !.userId = Some(userId), !.description = description,
                 !.storagePath = StoragePath(symbolRoot, userId, now, file.name)])

\* the bucket stores the object unless the path is taken (upsert: false)
ServeUpload(c) ==
  /\ Serves(c, "upload")
  /\ \/ /\ calls[c].storagePath \in blobs
        /\ Reply(c, Response(DuplicateError, TRUE, <<>>))
        /\ UNCHANGED blobs
     \/ /\ calls[c].storagePath \notin blobs
        /\ blobs' = blobs \cup {calls[c].storagePath}
        /\ Reply(c, Response(NoErr, TRUE, <<>>))
     \/ /\ \E e \in StorageErrors : Reply(c, Response(e, TRUE, <<>>))
        /\ UNCHANGED blobs
  /\ TimePasses
  /\ UNCHANGED <<table, nextId>>

\* the code after the upload without `if (uploadError) throw uploadError`
UploadAfterStorageUnchecked(c) ==
  /\ Resumes(c, "upload", "upload")
  /\ UNCHANGED store
  /\ Send(c, "insert")
  /\ UNCHANGED <<remote, clock>>

\* the code after the storage upload, were it to report half of the way
UploadAfterStorageHalfway(c) ==
  /\ Resumes(c, "upload", "upload")
  /\ LET resp == calls[c].resp
     IN  IF resp.error.present
           THEN /\ UploadCatch(resp.error)
                /\ Finally
                /\ End(c, "threw", None)
           ELSE /\ uploadProgress' = 50
                /\ UNCHANGED <<documents, isLoading, error>>
                /\ Send(c, "insert")
  /\ UNCHANGED <<remote, clock>>

UploadAfterStorage(c) ==
  /\ Resumes(c, "upload", "upload")
  /\ LET resp == calls[c].resp
     IN  IF resp.error.present
           THEN /\ UploadCatch(resp.error)
                /\ Finally
                /\ End(c, "threw", None)
           ELSE /\ UNCHANGED store
                /\ Send(c, "insert")
  /\ UNCHANGED <<remote, clock>>

\* the table inserts the row, gives it an id and the time, and returns it
ServeInsert(c) ==
  /\ Serves(c, "insert")
  /\ \/ LET row == InsertedRow(calls[c], nextId, Later)
        IN  /\ table' = table \cup {row}
            /\ nextId' = nextId + 1
            /\ Reply(c, Response(NoErr, FALSE, <<row>>))
            /\ TimeStamped
     \/ /\ \E e \in PostgrestErrors : Reply(c, Response(e, TRUE, <<>>))
        /\ TimePasses
        /\ UNCHANGED <<table, nextId>>
  /\ UNCHANGED blobs

\* the code after the insert, were it to list the table's rows anew instead
\* of `documents.value.unshift(data)`
UploadAfterInsertListingAnew(c) ==
  /\ Resumes(c, "upload", "insert")
  /\ LET resp == calls[c].resp
     IN  IF resp.error.present
           THEN /\ UploadCatch(resp.error)
                /\ Finally
                /\ End(c, "threw", None)
           ELSE /\ uploadProgress' = 100
                /\ documents' = OrderDescending(
                                   Selected(table, calls[c].symbolRoot, calls[c].userId))
                /\ UNCHANGED error
                /\ Finally
                /\ End(c, "returned", Some(resp.rows[1]))
  /\ UNCHANGED <<remote, clock>>

\* the code after the insert without `documents.value.unshift(data)`
UploadAfterInsertNotListing(c) ==
  /\ Resumes(c, "upload", "insert")
  /\ LET resp == calls[c].resp
     IN  IF resp.error.present
           THEN /\ UploadCatch(resp.error)
                /\ Finally
                /\ End(c, "threw", None)
           ELSE /\ uploadProgress' = 100
                /\ UNCHANGED <<documents, error>>
                /\ Finally
                /\ End(c, "returned", Some(resp.rows[1]))
  /\ UNCHANGED <<remote, clock>>

UploadAfterInsert(c) ==
  /\ Resumes(c, "upload", "insert")
  /\ LET resp == calls[c].resp
     IN  IF resp.error.present
           THEN /\ UploadCatch(resp.error)
                /\ Finally
                /\ End(c, "threw", None)
           ELSE /\ uploadProgress' = 100
                /\ documents' = Unshift(documents, resp.rows[1])
                /\ UNCHANGED error
                /\ Finally
                /\ End(c, "returned", Some(resp.rows[1]))
  /\ UNCHANGED <<remote, clock>>

(***************************************************************************)
(* downloadDocument(document)                                              *)
(***************************************************************************)
\* catch (err) of downloadDocument
DownloadCatch(err) ==
  /\ error' = ErrorMessage(err, "Failed to download document")
  /\ UNCHANGED <<documents, uploadProgress, isLoading>>

DownloadStart(c, document) ==
  /\ UNCHANGED <<store, remote, clock>>
  /\ Begin(c, [Frame("download", "download") EXCEPT !.document = document])

\* the bucket returns the object at the path, if there is one
ServeDownload(c) ==
  /\ Serves(c, "download")
  /\ \/ /\ calls[c].document.storage_path \in blobs
        /\ Reply(c, Response(NoErr, FALSE, <<>>))
     \/ /\ calls[c].document.storage_path \notin blobs
        /\ Reply(c, Response(NotFoundError, TRUE, <<>>))
     \/ \E e \in StorageErrors : Reply(c, Response(e, TRUE, <<>>))
  /\ TimePasses
  /\ UNCHANGED remote

\* a download whose catch block ends with `throw err`
DownloadResumeRethrowing(c) ==
  /\ Resumes(c, "download", "download")
  /\ LET resp == calls[c].resp
     IN  /\ IF resp.error.present
              THEN /\ error' = ErrorMessage(resp.error, "Failed to download document")
                   /\ UNCHANGED <<documents, uploadProgress, isLoading>>
              ELSE UNCHANGED store
         /\ End(c, IF resp.error.present THEN "threw" ELSE "returned", None)
  /\ UNCHANGED <<remote, clock>>

\* the object URL made for the link is revoked in the same step
DownloadResume(c) ==
  /\ Resumes(c, "download", "download")
  /\ LET resp == calls[c].resp
     IN  /\ IF resp.error.present
              THEN DownloadCatch(resp.error)
              ELSE UNCHANGED store
         /\ End(c, "returned", None)
  /\ UNCHANGED <<remote, clock>>

(***************************************************************************)
(* deleteDocument(document)                                                *)
(***************************************************************************)
\* the filter with === for !==
FilteredKeepingMatch(list, document) ==
  SelectSeq(list, LAMBDA doc : doc.id = document.id)

\* documents.value.filter(doc => doc.id !== document.id)
Filtered(list, document) == SelectSeq(list, LAMBDA doc : doc.id # document.id)

\* catch (err) of deleteDocument, up to the throw
DeleteCatch(err) ==
  /\ error' = ErrorMessage(err, "Failed to delete document")
  /\ UNCHANGED <<documents, uploadProgress>>

DeleteStart(c, document) ==
  /\ isLoading' = TRUE
  /\ error' = NullError
  /\ UNCHANGED <<documents, uploadProgress, remote, clock>>
  /\ Begin(c, [Frame("delete", "remove") EXCEPT !.document = document,
                                               !.hadRow = document \in table])

\* the bucket removes the object at the path; a path that holds none is no error
ServeRemove(c) ==
  /\ Serves(c, "remove")
  /\ \/ /\ blobs' = blobs \ {calls[c].document.storage_path}
        /\ Reply(c, Response(NoErr, FALSE, <<>>))
     \/ /\ \E e \in StorageErrors : Reply(c, Response(e, TRUE, <<>>))
        /\ UNCHANGED blobs
  /\ TimePasses
  /\ UNCHANGED <<table, nextId>>

\* the code after the removal without `if (storageError) throw storageError`
DeleteAfterStorageUnchecked(c) ==
  /\ Resumes(c, "delete", "remove")
  /\ UNCHANGED store
  /\ Send(c, "delete")
  /\ UNCHANGED <<remote, clock>>

\* the code after the removal, were it to ask again whenever the removal fails
DeleteAfterStorageRetrying(c) ==
  /\ Resumes(c, "delete", "remove")
  /\ UNCHANGED store
  /\ IF calls[c].resp.error.present
       THEN /\ calls' = [calls EXCEPT ![c].pc = "sent"]
            /\ finished' = IdleFrame
            /\ prevDocuments' = documents
            /\ UNCHANGED <<started, alone, scope, apart>>
       ELSE Send(c, "delete")
  /\ UNCHANGED <<remote, clock>>

DeleteAfterStorage(c) ==
  /\ Resumes(c, "delete", "remove")
  /\ LET resp == calls[c].resp
     IN  IF resp.error.present
           THEN /\ DeleteCatch(resp.error)
                /\ Finally
                /\ End(c, "threw", None)
           ELSE /\ UNCHANGED store
                /\ Send(c, "delete")
  /\ UNCHANGED <<remote, clock>>

\* the table deletes the rows with the id; deleting none is no error
ServeDelete(c) ==
  /\ Serves(c, "delete")
  /\ \/ /\ table' = {r \in table : r.id # calls[c].document.id}
        /\ Reply(c, Response(NoErr, TRUE, <<>>))
     \/ /\ \E e \in PostgrestErrors : Reply(c, Response(e, TRUE, <<>>))
        /\ UNCHANGED table
  /\ TimePasses
  /\ UNCHANGED <<blobs, nextId>>

\* the code after the row delete without `if (deleteError) throw deleteError`
DeleteAfterRowUnchecked(c) ==
  /\ Resumes(c, "delete", "delete")
  /\ documents' = SelectSeq(documents, LAMBDA doc : doc.id # calls[c].document.id)
  /\ UNCHANGED <<error, uploadProgress>>
  /\ isLoading' = FALSE
  /\ End(c, "returned", None)
  /\ UNCHANGED <<remote, clock>>

DeleteAfterRow(c) ==
  /\ Resumes(c, "delete", "delete")
  /\ LET resp == calls[c].resp
     IN  IF resp.error.present
           THEN /\ DeleteCatch(resp.error)
                /\ Finally
                /\ End(c, "threw", None)
           ELSE /\ documents' = Filtered(documents, calls[c].document)
                /\ UNCHANGED <<error, uploadProgress>>
                /\ Finally
                /\ End(c, "returned", None)
  /\ UNCHANGED <<remote, clock>>

(***************************************************************************)
(* The specification: callers make calls with any arguments, at any time;  *)
(* download and delete are given a record of the local list, as the        *)
(* panel's row actions give them.                                          *)
(***************************************************************************)
Rows(list) == {list[i] : i \in 1..Len(list)}

Next ==
  \/ \E c \in DOMAIN calls, a \in FetchArgs : FetchStart(c, a[1], a[2])
  \/ \E c \in DOMAIN calls : ServeSelect(c)
  \/ \E c \in DOMAIN calls : FetchResume(c)
  \/ \E c \in DOMAIN calls, a \in UploadArgs : UploadStart(c, a[1], a[2], a[3], a[4])
  \/ \E c \in DOMAIN calls : ServeUpload(c)
  \/ \E c \in DOMAIN calls : UploadAfterStorage(c)
  \/ \E c \in DOMAIN calls : ServeInsert(c)
  \/ \E c \in DOMAIN calls : UploadAfterInsert(c)
  \/ \E c \in DOMAIN calls, d \in Rows(documents) : DownloadStart(c, d)
  \/ \E c \in DOMAIN calls : ServeDownload(c)
  \/ \E c \in DOMAIN calls : DownloadResume(c)
  \/ \E c \in DOMAIN calls, d \in Rows(documents) : DeleteStart(c, d)
  \/ \E c \in DOMAIN calls : ServeRemove(c)
  \/ \E c \in DOMAIN calls : DeleteAfterStorage(c)
  \/ \E c \in DOMAIN calls : ServeDelete(c)
  \/ \E c \in DOMAIN calls : DeleteAfterRow(c)

Spec == Init /\ [][Next]_vars

(***************************************************************************)
(* What is checked.  `finished` is the frame of the call that the last     *)
(* step completed, so a formula about `finished` speaks of the state at    *)
(* the completion of a call; prevDocuments is the local list just before   *)
(* the completing step.  `alone` says that no other call was in flight     *)
(* while the finished call ran.                                            *)
(***************************************************************************)
Completed(op) == finished.pc = "done" /\ finished.op = op

Matches(r, symbolRoot, userId) ==
  /\ r.symbol_root = symbolRoot
  /\ (userId # None /\ userId[1] # <<>>) => r.user_id = userId[1]

Has(list, id) == \E i \in 1..Len(list) : list[i].id = id

\* C1: when fetch completes successfully the local list is exactly the
\* sequence the server returned (the empty list for a null result): only rows
\* of the symbol root (and of the user, when a non-empty user id was given),
\* newest first, each once; when no other call ran meanwhile these are all
\* such rows of the table and the error is absent.
FetchSuccessListIsResult ==
  (Completed("fetch") /\ finished.failed = "none") =>
    /\ documents = IF finished.resp.isNull THEN <<>> ELSE finished.resp.rows
    /\ \A i \in 1..Len(documents) :
         Matches(documents[i], finished.symbolRoot, finished.userId)
    /\ \A i, j \in 1..Len(documents) :
         i < j => documents[i].uploaded_at >= documents[j].uploaded_at
    /\ \A i, j \in 1..Len(documents) : i # j => documents[i] # documents[j]
    /\ finished.outcome = "returned"
    /\ alone =>
         /\ Rows(documents) =
              {r \in table : Matches(r, finished.symbolRoot, finished.userId)}
         /\ error = NullError

\* a successful fetch of two rows of a table that holds rows of another symbol
FetchSuccessReached ==
  /\ Completed("fetch") /\ finished.failed = "none" /\ alone
  /\ Len(documents) = 2
  /\ \E r \in table : r.symbol_root # finished.symbolRoot

\* C2: when the query of fetch fails, the error is set to a message and the
\* local list is what it was: no step of that fetch changed it.
FetchFailureKeepsList ==
  (Completed("fetch") /\ finished.failed # "none") =>
    /\ error # NullError
    /\ error = IF finished.resp.error.isError
                 THEN finished.resp.error.message
                 ELSE "Failed to fetch documents"
    /\ documents = prevDocuments
    /\ finished.unchanged

\* a failed fetch with a list that an earlier fetch had filled
FetchFailureReached ==
  /\ Completed("fetch") /\ finished.failed = "select"
  /\ prevDocuments # <<>>

\* C3: when upload fully succeeds, the first element of the local list is
\* the record the insert returned, with the call's symbol root, user id and
\* the path sent to the bucket; the caller gets the same record, the progress
\* is 100 and the list is the previous list with that one entry in front.
UploadSuccessPrepends ==
  (Completed("upload") /\ finished.failed = "none") =>
    /\ finished.issued = <<"upload", "insert">>
    /\ Len(documents) = Len(prevDocuments) + 1
    /\ documents[1] = finished.resp.rows[1]
    /\ \A i \in 1..Len(prevDocuments) : documents[i + 1] = prevDocuments[i]
    /\ documents[1].symbol_root = finished.symbolRoot
    /\ documents[1].user_id = finished.userId[1]
    /\ documents[1].storage_path = finished.storagePath
    /\ finished.outcome = "returned"
    /\ finished.ret = <<documents[1]>>
    /\ uploadProgress = 100
    /\ alone => documents[1] \in table /\ finished.storagePath \in blobs

\* a successful upload into a list that was not empty
UploadSuccessReached ==
  /\ Completed("upload") /\ finished.failed = "none"
  /\ prevDocuments # <<>>

\* C4: when the bucket rejects the upload, the call issues no insert, the
\* local list is what it was, and, no other call having run meanwhile, the
\* table holds no row for the path.
UploadBlobFailureStops ==
  (Completed("upload") /\ finished.failed = "upload") =>
    /\ finished.issued = <<"upload">>
    /\ documents = prevDocuments
    /\ finished.unchanged
    /\ alone => \A r \in table : r.storage_path # finished.storagePath

\* a rejected upload, with a list that was not empty
UploadBlobFailureReached ==
  /\ Completed("upload") /\ finished.failed = "upload"
  /\ documents # <<>>

\* C5: when the insert fails after the object was stored, the call issues no
\* further request (no object is removed), the local list is what it was, the
\* error is set and the call throws; no other call having run meanwhile, the
\* object is in the bucket and the table holds no row for its path.
UploadInsertFailureOrphans ==
  (Completed("upload") /\ finished.failed = "insert") =>
    /\ finished.issued = <<"upload", "insert">>
    /\ documents = prevDocuments
    /\ finished.unchanged
    /\ error # NullError
    /\ finished.outcome = "threw"
    /\ alone => /\ finished.storagePath \in blobs
                /\ \A r \in table : r.storage_path # finished.storagePath

\* an orphan object: stored, its insert failed, the list not empty
UploadInsertFailureReached ==
  /\ Completed("upload") /\ finished.failed = "insert" /\ alone
  /\ finished.storagePath \in blobs
  /\ documents # <<>>

\* C6: when delete fully succeeds, the local list has no entry with the
\* record's id and is the previous list without the entries of that id: all
\* others remain, in order.
DeleteSuccessRemoves ==
  (Completed("delete") /\ finished.failed = "none") =>
    /\ ~Has(documents, finished.document.id)
    /\ documents = SelectSeq(prevDocuments,
                             LAMBDA d : d.id # finished.document.id)
    /\ finished.issued = <<"remove", "delete">>
    /\ finished.outcome = "returned"

\* a successful delete of one of two listed records
DeleteSuccessReached ==
  /\ Completed("delete") /\ finished.failed = "none"
  /\ Has(prevDocuments, finished.document.id)
  /\ Len(documents) = 1 /\ Len(prevDocuments) = 2

\* C7: when the bucket fails to remove the object, the call issues no row
\* delete and the local list is what it was; no other call having run
\* meanwhile, the row is still in the table (if it was when the call was
\* made) and the record is still in the list.
DeleteBlobFailureStops ==
  (Completed("delete") /\ finished.failed = "remove") =>
    /\ finished.issued = <<"remove">>
    /\ documents = prevDocuments
    /\ finished.unchanged
    /\ alone => /\ finished.hadRow => finished.document \in table
                /\ finished.document \in Rows(documents)

\* a delete whose object removal failed, row and entry in place
DeleteBlobFailureReached ==
  /\ Completed("delete") /\ finished.failed = "remove" /\ alone
  /\ finished.document \in table
  /\ finished.document \in Rows(documents)

\* C8: when the row delete fails after the object was removed, the call
\* issues no further request, the local list is what it was, the error is set
\* and the call throws; no other call having run meanwhile, the object is
\* gone while the row (if it was there) and the list entry remain.
DeleteRowFailureDangles ==
  (Completed("delete") /\ finished.failed = "delete") =>
    /\ finished.issued = <<"remove", "delete">>
    /\ documents = prevDocuments
    /\ finished.unchanged
    /\ error # NullError
    /\ finished.outcome = "threw"
    /\ alone => /\ finished.document.storage_path \notin blobs
                /\ finished.hadRow => finished.document \in table
                /\ finished.document \in Rows(documents)

\* a dangling record: the object gone, the row and the entry in place
DeleteRowFailureReached ==
  /\ Completed("delete") /\ finished.failed = "delete" /\ alone
  /\ finished.document.storage_path \notin blobs
  /\ finished.document \in table
  /\ finished.document \in Rows(documents)

\* C9: a call one of whose requests failed has set the error; fetch and
\* download then return normally, upload and delete throw, whichever request
\* it was.  A call none of whose requests failed returns normally.
FailureSilentOrLoud ==
  finished.pc = "done" =>
    IF finished.failed = "none"
      THEN finished.outcome = "returned"
      ELSE /\ error # NullError
           /\ finished.op \in {"fetch", "download"} => finished.outcome = "returned"
           /\ finished.op \in {"upload", "delete"} => finished.outcome = "threw"

\* a download that failed and returned
FailureSilentReached ==
  /\ Completed("download") /\ finished.failed = "download"
  /\ finished.outcome = "returned"

\* C10: when a fetch, an upload or a delete completes, by returning or by
\* throwing, isLoading is false.
CompletionClearsLoading ==
  (finished.pc = "done" /\ finished.op \in {"fetch", "upload", "delete"}) =>
    isLoading = FALSE

\* an upload that threw, after isLoading had been set
CompletionClearsLoadingReached ==
  /\ Completed("upload") /\ finished.outcome = "threw"
  /\ isLoading = FALSE

\* a call that sets isLoading: fetchDocuments, uploadDocument, deleteDocument
Loading(c) == c \in InFlight /\ calls[c].op \in {"fetch", "upload", "delete"}

\* C11: isLoading is true in every state in which a fetch, an upload or a
\* delete has started and has not yet completed, however many calls overlap.
\* It is not: the finally of the first call to complete clears the one flag
\* while another call is still waiting for its answer.
LoadingWhileInFlight == (\E c \in DOMAIN calls : Loading(c)) => isLoading = TRUE

\* an upload or a delete has just completed with every request answered well
Changed ==
  /\ finished.pc = "done"
  /\ finished.op \in {"upload", "delete"}
  /\ finished.outcome = "returned"
  /\ finished.failed = "none"

\* the record an upload makes falls under the filter of the local list
UploadInScope ==
  finished.op = "upload" =>
    /\ scope # None
    /\ finished.symbolRoot = scope[1].symbolRoot
    /\ scope[1].userId # None => finished.userId = scope[1].userId

\* C12 as stated: right after any upload or delete completes successfully the
\* ids of the local list are the ids of the table's rows under the list's
\* filter, provided they were when the operation was called.  It fails for an
\* upload made for another symbol root or user than the list was fetched for,
\* and for a call that another call overlaps.
ConsistentAfterAnyChange ==
  (Changed /\ finished.agreed) => Agrees(documents, table)

\* C12, amended: the same, for an upload or delete that no other call of the
\* store overlapped and, for an upload, whose symbol root and user fall under
\* the filter the list was fetched with.
ConsistentAfterChange ==
  (Changed /\ finished.agreed /\ alone /\ UploadInScope)
    => Agrees(documents, table)

ConsistentAfterUploadReached ==
  /\ Changed /\ finished.agreed /\ alone /\ UploadInScope
  /\ finished.op = "upload"
  /\ Len(documents) > 1
  /\ Agrees(documents, table)

(***************************************************************************)
(* uploadDocument tried on its own, once, over file names, symbol roots    *)
(* and user ids drawn from a small alphabet and at several times of the    *)
(* clock.  A name is a sequence of UTF-16 code units, which is what the    *)
(* regular expression of line 64 works on.                                 *)
(***************************************************************************)
MaxNameLen == 2

NameChars == {"a", "Z", "7", ".", "-", "_", " ", "/", "#"}

Names == UNION {[1..n -> NameChars] : n \in 0..MaxNameLen}

TriedFile(name) == [name |-> name, size |-> 1024, type |-> "text/plain"]

PathInit ==
  /\ StoreInit
  /\ now \in {3, 40, 512}
  /\ calls = [c \in {1} |-> IdleFrame]
  /\ trial \in [stage : {"upload"},
                symbolRoot : {<<"A">>, <<"A", "/", "B">>},
                userId : {<<"u">>, <<"u", "_">>},
                fileName : Names,
                timestamp : {now}]
  /\ panel = Unused

PathNext ==
  \/ \E c \in DOMAIN calls :
       UploadStart(c, TriedFile(trial.fileName), trial.symbolRoot, trial.userId, None)
  \/ \E c \in DOMAIN calls : ServeUpload(c)
  \/ \E c \in DOMAIN calls : UploadAfterStorage(c)
  \/ \E c \in DOMAIN calls : ServeInsert(c)
  \/ \E c \in DOMAIN calls : UploadAfterInsert(c)

PathSpec == PathInit /\ [][PathNext]_vars

\* the frame of the upload tried, in flight or just completed
Tried == IF finished.op = "upload" THEN finished ELSE calls[1]

\* what the claim says becomes of each code unit of a tried name
Replaced(ch) == IF ch \in {"a", "Z", "7", ".", "-"} THEN ch ELSE "_"

\* the number a sequence of decimal digits denotes
RECURSIVE Denoted(_)
Denoted(digits) ==
  IF digits = <<>> THEN 0
  ELSE 10 * Denoted(SubSeq(digits, 1, Len(digits) - 1))
         + (CHOOSE d \in 0..9 : DigitChars[d + 1] = digits[Len(digits)])

IsNumeral(digits, n) ==
  /\ Len(digits) >= 1
  /\ \A i \in 1..Len(digits) : \E d \in 0..9 : DigitChars[d + 1] = digits[i]
  /\ Len(digits) > 1 => digits[1] # "0"
  /\ Denoted(digits) = n

\* path is symbolRoot "/" userId "/" timestamp "_" name, code unit by code unit
AsClaimed(path, symbolRoot, userId, timestamp, name) ==
  LET a == Len(symbolRoot)
      b == Len(userId)
      k == Len(path) - a - b - Len(name) - 3
  IN  /\ k >= 1
      /\ SubSeq(path, 1, a) = symbolRoot
      /\ path[a + 1] = "/"
      /\ SubSeq(path, a + 2, a + b + 1) = userId
      /\ path[a + b + 2] = "/"
      /\ IsNumeral(SubSeq(path, a + b + 3, a + b + k + 2), timestamp)
      /\ path[a + b + k + 3] = "_"
      /\ \A i \in 1..Len(name) : path[a + b + k + 3 + i] = Replaced(name[i])

\* C13: the storagePath computed by upload is exactly symbol root, "/", user
\* id, "/", the millisecond timestamp in decimal, "_" and the file name with
\* every code unit outside [A-Za-z0-9.-] replaced by "_" and every other one
\* kept in place; the object is stored under that path and the row inserted
\* carries it.
StoragePathAsClaimed ==
  Tried.op = "upload" =>
    /\ AsClaimed(Tried.storagePath, trial.symbolRoot, trial.userId,
                 trial.timestamp, trial.fileName)
    /\ blobs \subseteq {r.storage_path : r \in InitialRows} \cup {Tried.storagePath}
    /\ "insert" \in {Tried.issued[i] : i \in 1..Len(Tried.issued)}
         => Tried.storagePath \in blobs
    /\ \A r \in table \ InitialRows : r.storage_path = Tried.storagePath
    /\ (Completed("upload") /\ finished.failed = "none")
         => /\ documents[1].storage_path = Tried.storagePath
            /\ documents[1] \in table

StoragePathReached ==
  /\ Completed("upload") /\ finished.failed = "none"
  /\ trial.fileName = <<"#", "-">>
  /\ trial.symbolRoot = <<"A">>
  /\ trial.timestamp = 512
  /\ documents[1].storage_path = <<"A", "/", "u", "/", "5", "1", "2", "_", "_", "-">>
  /\ documents[1].storage_path \in blobs

(***************************************************************************)
(* Uploads and deletes only, with one call more than Spec allows, so that  *)
(* a record can be uploaded and deleted while another upload is waiting.   *)
(***************************************************************************)
ChangesInit ==
  /\ StoreInit
  /\ now = 3
  /\ calls = [c \in 1..(MaxCalls + 1) |-> IdleFrame]
  /\ trial = Unused
  /\ panel = Unused

ChangesNext ==
  \/ \E c \in DOMAIN calls, a \in UploadArgs : UploadStart(c, a[1], a[2], a[3], a[4])
  \/ \E c \in DOMAIN calls : ServeUpload(c)
  \/ \E c \in DOMAIN calls : UploadAfterStorage(c)
  \/ \E c \in DOMAIN calls : ServeInsert(c)
  \/ \E c \in DOMAIN calls : UploadAfterInsert(c)
  \/ \E c \in DOMAIN calls, d \in Rows(documents) : DeleteStart(c, d)
  \/ \E c \in DOMAIN calls : ServeRemove(c)
  \/ \E c \in DOMAIN calls : DeleteAfterStorage(c)
  \/ \E c \in DOMAIN calls : ServeDelete(c)
  \/ \E c \in DOMAIN calls : DeleteAfterRow(c)

ChangesSpec == ChangesInit /\ [][ChangesNext]_vars

\* the bucket takes an object for a path that holds one
Overwrites(c) ==
  /\ Serves(c, "upload")
  /\ calls[c].storagePath \in blobs
  /\ calls'[c].pc = "replied"
  /\ ~calls'[c].resp.error.present

UniquePaths ==
  \A r \in table, q \in table : r.storage_path = q.storage_path => r.id = q.id

\* C14: across any sequence of uploads and deletes no two rows of the table
\* ever have the same storagePath, and no upload overwrites an existing blob.
\* The second half holds; the first does not: a delete whose row delete fails
\* frees the path of a row that stays, and an upload that began in the same
\* millisecond with the same sanitized name then takes the path again.
PathsStayUnique ==
  /\ []UniquePaths
  /\ [][\A c \in DOMAIN calls : ~Overwrites(c)]_vars

(***************************************************************************)
(* formatFileSize(bytes).  TLC's integers have 32 bits and the function    *)
(* is to be tried beyond 1024^4, so a byte count is written in base 1024,  *)
(* most significant digit first and without leading zeros: 1536 is         *)
(* <<1, 512>>, 1024^4 is <<1, 0, 0, 0, 0>>.  The counts tried have zeros   *)
(* after their second digit and lie below 2^53; for them the doubles the   *)
(* code computes (the logarithms' quotient, the division by a power of     *)
(* two and the product with 100) are the exact values modelled here.       *)
(***************************************************************************)
MaxDigits == 5

Kilo == 1024

\* const sizes = ['Bytes', 'KB', 'MB', 'GB']
sizes ==
  << <<"B", "y", "t", "e", "s">>, <<"K", "B">>, <<"M", "B">>, <<"G", "B">> >>

\* sizes[i]; an index past the end of the array gives undefined, which
\* string concatenation prints as "undefined"
SizesAt(i) ==
  IF i + 1 <= Len(sizes) THEN sizes[i + 1]
  ELSE <<"u", "n", "d", "e", "f", "i", "n", "e", "d">>

\* Math.floor(Math.log(bytes) / Math.log(k)) of a positive count
FloorLog(bytes) == Len(bytes) - 1

\* the floor of m times the fraction 0.d1 d2 ... written in base 1024
RECURSIVE Scaled(_, _)
Scaled(m, digits) ==
  IF digits = <<>> THEN 0
  ELSE (m * Head(digits) + Scaled(m, Tail(digits))) \div Kilo

\* the number that digits in base 1024 denote
RECURSIVE Value(_)
Value(digits) ==
  IF digits = <<>> THEN 0
  ELSE Kilo * Value(SubSeq(digits, 1, Len(digits) - 1)) + digits[Len(digits)]

\* Math.round(bytes / Math.pow(k, i) * 100): the hundredths, halves rounded up
RoundedHundredths(bytes, i) ==
  LET whole == SubSeq(bytes, 1, Len(bytes) - i)
      rest == SubSeq(bytes, Len(bytes) - i + 1, Len(bytes))
  IN  100 * Value(whole) + (Scaled(200, rest) + 1) \div 2

\* a number of hundredths printed with two decimals always (toFixed(2))
NumberFixed(hundredths) ==
  Decimal(hundredths \div 100) \o <<".">>
    \o <<DigitChars[((hundredths % 100) \div 10) + 1]>>
    \o <<DigitChars[(hundredths % 10) + 1]>>

\* hundredths / 100 + ' ': a number prints as its shortest decimal
NumberText(hundredths) ==
  LET cents == hundredths % 100
  IN  Decimal(hundredths \div 100) \o
        ( IF cents = 0 THEN <<>>
          ELSE IF cents % 10 = 0 THEN <<".", DigitChars[(cents \div 10) + 1]>>
          ELSE <<".", DigitChars[(cents \div 10) + 1], DigitChars[(cents % 10) + 1]>> )

formatFileSize(bytes) ==
  IF bytes = <<0>> THEN <<"0", " ">> \o sizes[1]
  ELSE LET i == FloorLog(bytes)
       IN  NumberText(RoundedHundredths(bytes, i)) \o <<" ">> \o SizesAt(i)

\* byte counts: 0, counts below 1024, and counts of two digits followed by zeros
ByteCounts ==
  {<<d>> : d \in {0, 1, 2, 500, 1023}} \cup
  { <<a, b>> \o [j \in 1..z |-> 0] :
      a \in {1, 2, 1023}, b \in {0, 5, 128, 512, 1018, 1019, 1023},
      z \in 0..(MaxDigits - 2) }

SizeInit ==
  /\ StoreInit
  /\ now = 3
  /\ calls = [c \in Calls |-> IdleFrame]
  /\ trial \in [stage : {"format"}, bytes : ByteCounts, out : {<<>>}]
  /\ panel = Unused

\* the size column of the panel formats file_size
FormatCall ==
  /\ trial.stage = "format"
  /\ trial' = [trial EXCEPT !.stage = "formatted",
                            !.out = formatFileSize(trial.bytes)]
  /\ UNCHANGED <<store, remote, clock, calls, started, finished, alone,
                 prevDocuments, scope, panel>>

SizeNext == FormatCall

SizeSpec == SizeInit /\ [][SizeNext]_vars

\* C15: formatFileSize(0) is "0 Bytes", formatFileSize(1024) is "1 KB",
\* formatFileSize(1536) is "1.5 KB" and formatFileSize(1048576) is "1 MB".
FormatExamples ==
  trial.stage = "formatted" =>
    /\ trial.bytes = <<0>> => trial.out = <<"0", " ", "B", "y", "t", "e", "s">>
    /\ trial.bytes = <<1, 0>> => trial.out = <<"1", " ", "K", "B">>
    /\ trial.bytes = <<1, 512>> => trial.out = <<"1", ".", "5", " ", "K", "B">>
    /\ trial.bytes = <<1, 0, 0>> => trial.out = <<"1", " ", "M", "B">>

FormatExamplesReached ==
  /\ trial.stage = "formatted"
  /\ trial.bytes = <<1, 512>>
  /\ trial.out = <<"1", ".", "5", " ", "K", "B">>

\* C16: for every positive byte count, counts of 1024^4 and above included,
\* formatFileSize renders "<value> <unit>" where unit is the largest of
\* Bytes, KB, MB, GB in which the count is at least 1 and value is the count
\* scaled to that unit and rounded to 2 decimals.  It does not from 1024^4
\* on: the index computed is 4 or more and sizes has four entries.
SizeAsClaimed ==
  (trial.stage = "formatted" /\ trial.bytes # <<0>>) =>
    \E u \in 1..4 :
      /\ Len(trial.bytes) >= u
      /\ u < 4 => Len(trial.bytes) = u
      /\ trial.out = NumberText(RoundedHundredths(trial.bytes, u - 1))
                       \o <<" ">> \o sizes[u]

(***************************************************************************)
(* Fetches and uploads for one symbol root and user, as the panel makes    *)
(* them, with one call more than Spec allows and at most two calls in      *)
(* flight at a time: two calls that overlap and a call after them.         *)
(***************************************************************************)
RaceInit ==
  /\ StoreInit
  /\ now = 3
  /\ calls = [c \in 1..(MaxCalls + 1) |-> IdleFrame]
  /\ trial = Unused
  /\ panel = Unused

PanelUpload == CHOOSE a \in UploadArgs : a[1].size > 0

\* a call may be made while at most one other call is in flight
Pairwise == Cardinality(InFlight) < 2

RaceNext ==
  \/ \E c \in DOMAIN calls :
       Pairwise /\ FetchStart(c, PanelUpload[2], Some(PanelUpload[3]))
  \/ \E c \in DOMAIN calls : ServeSelect(c)
  \/ \E c \in DOMAIN calls : FetchResume(c)
  \/ \E c \in DOMAIN calls :
       Pairwise /\ UploadStart(c, PanelUpload[1], PanelUpload[2],
                               PanelUpload[3], PanelUpload[4])
  \/ \E c \in DOMAIN calls : ServeUpload(c)
  \/ \E c \in DOMAIN calls : UploadAfterStorage(c)
  \/ \E c \in DOMAIN calls : ServeInsert(c)
  \/ \E c \in DOMAIN calls : UploadAfterInsert(c)

RaceSpec == RaceInit /\ [][RaceNext]_vars

\* the local list lacks row r of the table, which its filter selects
Lost(r) == r \in InScope(table) /\ r.id \notin ListIds(documents)

\* a call in flight is about to list r (an upload whose insert made it) or
\* to delete it
Pending(r) ==
  \E c \in InFlight :
    \/ calls[c].op = "delete" /\ calls[c].document.id = r.id
    \/ /\ calls[c].op = "upload" /\ calls[c].req = "insert"
       /\ calls[c].pc = "replied" /\ ~calls[c].resp.error.present
       /\ calls[c].resp.rows[1].id = r.id

\* a step leaves r lost unless it completes a fetch
StaysLost(r) ==
  (Lost(r) /\ ~Pending(r)) =>
    \/ r \in InScope(table') /\ r.id \notin ListIds(documents')
    \/ finished'.pc = "done" /\ finished'.op = "fetch"

\* C17: nothing arbitrates overlapping calls.  Two overlapping calls whose
\* requests all succeed can leave the local list different from the table's
\* rows for its filter once both have completed (the state RaceLosesRecord:
\* the fetch, answered before the upload's insert, writes its list last);
\* a row the list lacks in this way stays missing at every step until a
\* fetch completes, and a fetch that completes alone and well puts the list
\* in agreement with the table again.
MismatchLasts ==
  /\ [][\A r \in table : StaysLost(r)]_vars
  /\ []((Completed("fetch") /\ finished.failed = "none" /\ alone)
          => Agrees(documents, table))

RaceLosesRecord ==
  /\ InFlight = {}
  /\ started = 2
  /\ ~alone
  /\ error = NullError
  /\ Completed("fetch") /\ finished.failed = "none"
  /\ documents = finished.resp.rows
  /\ \E r \in table \ InitialRows : Lost(r)

(***************************************************************************)
(* Reading a storage path back by the convention                           *)
(* {symbolRoot}/{userId}/{epochMillis}_{sanitizedFileName}: the text up to *)
(* the first "/", the text up to the next "/", the digits up to the next   *)
(* "_", and the rest.  No code of the repository reads a path back; this   *)
(* is how a reader of the convention splits one.                           *)
(***************************************************************************)
\* the first position from `from` on where text holds ch, or 0
FirstAt(text, ch, from) ==
  IF \E i \in from..Len(text) : text[i] = ch
    THEN CHOOSE i \in from..Len(text) :
           text[i] = ch /\ \A j \in from..(i - 1) : text[j] # ch
    ELSE 0

Unparsed == [ok |-> FALSE]

ParsePath(path) ==
  LET s1 == FirstAt(path, "/", 1)
      s2 == IF s1 = 0 THEN 0 ELSE FirstAt(path, "/", s1 + 1)
      u == IF s2 = 0 THEN 0 ELSE FirstAt(path, "_", s2 + 1)
      digits == SubSeq(path, s2 + 1, u - 1)
  IN  IF u = 0 \/ ~IsNumeral(digits, Denoted(digits)) THEN Unparsed
      ELSE [ok |-> TRUE,
            symbolRoot |-> SubSeq(path, 1, s1 - 1),
            userId |-> SubSeq(path, s1 + 1, s2 - 1),
            timestamp |-> Denoted(digits),
            fileName |-> SubSeq(path, u + 1, Len(path))]

\* C18 as stated: parsing the storagePath built by upload recovers the symbol
\* root, the user id, the timestamp and the original file name passed to
\* upload, for every symbol root, user id and file name over the alphabet.
\* It does not: sanitizing is not reversible (" ", "/", "#" and "_" all
\* become "_"), and a "/" inside the symbol root moves the split.
RoundTripRecoversAll ==
  Tried.op = "upload" =>
    ParsePath(Tried.storagePath) =
      [ok |-> TRUE, symbolRoot |-> trial.symbolRoot, userId |-> trial.userId,
       timestamp |-> trial.timestamp, fileName |-> trial.fileName]

NoSlash(text) == \A i \in 1..Len(text) : text[i] # "/"

\* C18, amended: when symbol root and user id hold no "/", parsing recovers
\* the symbol root, the user id, the timestamp and the sanitized file name;
\* the name parsed is the original name exactly when that holds no code unit
\* outside [A-Za-z0-9._-].
RoundTripRecoversSanitized ==
  (Tried.op = "upload" /\ NoSlash(trial.symbolRoot) /\ NoSlash(trial.userId)) =>
    LET parsed == ParsePath(Tried.storagePath)
    IN  /\ parsed.ok
        /\ parsed.symbolRoot = trial.symbolRoot
        /\ parsed.userId = trial.userId
        /\ parsed.timestamp = trial.timestamp
        /\ parsed.fileName = [i \in 1..Len(trial.fileName) |-> Replaced(trial.fileName[i])]
        /\ parsed.fileName = trial.fileName <=>
             \A i \in 1..Len(trial.fileName) :
               trial.fileName[i] \in {"a", "Z", "7", ".", "-", "_"}

RoundTripReached ==
  /\ Tried.op = "upload"
  /\ trial.symbolRoot = <<"A">> /\ trial.userId = <<"u", "_">>
  /\ trial.fileName = <<"a", " ">>
  /\ ParsePath(Tried.storagePath).userId = <<"u", "_">>
  /\ ParsePath(Tried.storagePath).fileName = <<"a", "_">>

(***************************************************************************)
(* The Documents panel's Actions cell and its preview, for one row.  A     *)
(* MIME type is written <<type, subtype>> for "type/subtype"; the list of  *)
(* isViewableDocument is compared by string equality, which is equality    *)
(* of both parts.  An object URL is the number of its creation.            *)
(***************************************************************************)
MimeTypes ==
  { <<"application", "pdf">>, <<"application", "PDF">>, <<"application", "zip">>,
    <<"image", "png">>, <<"image", "jpeg">>, <<"image", "jpg">>,
    <<"image", "gif">>, <<"image", "webp">>, <<"image", "svg+xml">>,
    <<"image", "bmp">>, <<"text", "plain">>, <<"text", "html">>,
    <<"text", "csv">>, <<"text", "markdown">>, <<"", "">> }

\* viewableTypes.includes(fileType), with a list that names no image types
isViewableWithoutImages(fileType) ==
  fileType \in { <<"application", "pdf">>, <<"text", "plain">>,
                 <<"text", "html">>, <<"text", "csv">> }

\* viewableTypes.includes(fileType)
isViewableDocument(fileType) ==
  fileType \in { <<"application", "pdf">>, <<"image", "png">>,
                 <<"image", "jpeg">>, <<"image", "jpg">>, <<"image", "gif">>,
                 <<"image", "webp">>, <<"text", "plain">>, <<"text", "html">>,
                 <<"text", "csv">> }

\* the panel before the table draws the row
PanelStart(fileType, path) ==
  [ stage |-> "listed", fileType |-> fileType, storagePath |-> path,
    buttons |-> {}, alerts |-> 0, request |-> "none", resp |-> NoResponse,
    isLoadingPreview |-> FALSE, viewingDocument |-> FALSE,
    showViewDialog |-> FALSE, documentUrl |-> None, urls |-> {} ]

ViewInit ==
  /\ StoreInit
  /\ now = 3
  /\ calls = [c \in Calls |-> IdleFrame]
  /\ trial = Unused
  /\ panel \in {PanelStart(t, r.storage_path) : t \in MimeTypes, r \in InitialRows}

PanelOnly ==
  UNCHANGED <<store, remote, clock, calls, started, finished, alone,
              prevDocuments, scope, trial>>

\* the formatter of the Actions column
FormatActions ==
  /\ panel.stage = "listed"
  /\ panel' = [panel EXCEPT
                 !.stage = "shown",
                 !.buttons = IF isViewableDocument(panel.fileType)
                               THEN {"btn-view", "btn-download", "btn-delete"}
                               ELSE {"btn-download", "btn-delete"}]
  /\ PanelOnly

\* viewDocument(document) up to its await
viewDocument ==
  IF ~isViewableDocument(panel.fileType)
    THEN panel' = [panel EXCEPT !.stage = "refused", !.alerts = @ + 1]
    ELSE panel' = [panel EXCEPT !.stage = "viewing",
                                !.isLoadingPreview = TRUE,
                                !.viewingDocument = TRUE,
                                !.showViewDialog = TRUE,
                                !.request = "sent"]

\* cellClick on the View button of the row
ClickView ==
  /\ panel.stage = "shown"
  /\ "btn-view" \in panel.buttons
  /\ viewDocument
  /\ PanelOnly

\* viewDocument called for the row although no button offers it
CallView ==
  /\ panel.stage = "shown"
  /\ "btn-view" \notin panel.buttons
  /\ viewDocument
  /\ PanelOnly

\* the bucket answers the preview's download
ServePreview ==
  /\ panel.request = "sent"
  /\ \E r \in { Response(NoErr, FALSE, <<>>) } \cup
              { Response(e, TRUE, <<>>) : e \in StorageErrors } :
       /\ panel.storagePath \notin blobs => r.error.present
       /\ panel' = [panel EXCEPT !.request = "replied", !.resp = r]
  /\ PanelOnly

\* viewDocument after its await, catch and finally included
ViewResume ==
  /\ panel.request = "replied"
  /\ panel' =
       IF panel.resp.error.present
         THEN [panel EXCEPT !.request = "done",
                            !.alerts = @ + 1, !.showViewDialog = FALSE,
                            !.isLoadingPreview = FALSE]
         ELSE [panel EXCEPT !.request = "done",
                            !.documentUrl = Some(Cardinality(panel.urls) + 1),
                            !.urls = @ \cup {Cardinality(panel.urls) + 1},
                            !.isLoadingPreview = FALSE]
  /\ PanelOnly

\* the dialog's close button or its overlay is clicked
closeViewDialog ==
  /\ panel.stage = "viewing"
  /\ panel.showViewDialog
  /\ panel' = [panel EXCEPT
                 !.showViewDialog = FALSE,
                 !.urls = IF panel.documentUrl # None
                            THEN @ \ {panel.documentUrl[1]} ELSE @,
                 !.documentUrl = None,
                 !.viewingDocument = FALSE]
  /\ PanelOnly

ViewNext ==
  \/ FormatActions
  \/ ClickView
  \/ CallView
  \/ ServePreview
  \/ ViewResume
  \/ closeViewDialog

ViewSpec == ViewInit /\ [][ViewNext]_vars

\* the Actions cell has been drawn
Drawn == panel.stage \in {"shown", "refused", "viewing"}

\* the panel offers View exactly for the types of `previewable`, and
\* viewDocument has started no download for any other type
OffersViewFor(previewable) ==
  Drawn =>
    /\ "btn-view" \in panel.buttons <=> panel.fileType \in previewable
    /\ panel.fileType \notin previewable => panel.request = "none"

\* C19 as stated: the panel offers the view action for a row exactly when the
\* row's MIME type is application/pdf, any image/* type, or text/plain,
\* text/html, text/csv, and for any other type viewDocument starts no blob
\* download.  The code lists five image types, not every image/* type.
ViewOfferedForAnyImage ==
  OffersViewFor({t \in MimeTypes :
                   \/ t = <<"application", "pdf">>
                   \/ t[1] = "image"
                   \/ t \in {<<"text", "plain">>, <<"text", "html">>, <<"text", "csv">>}})

\* C19, amended: the same with image/png, image/jpeg, image/jpg, image/gif
\* and image/webp in place of any image/* type.
ViewOfferedForListedTypes ==
  OffersViewFor({ <<"application", "pdf">>, <<"image", "png">>,
                  <<"image", "jpeg">>, <<"image", "jpg">>, <<"image", "gif">>,
                  <<"image", "webp">>, <<"text", "plain">>, <<"text", "html">>,
                  <<"text", "csv">> })

\* viewDocument has refused a type that no button offers
ViewRefusedReached ==
  /\ panel.stage = "refused"
  /\ panel.fileType = <<"image", "svg+xml">>
  /\ "btn-view" \notin panel.buttons
  /\ panel.alerts = 1
  /\ panel.request = "none"

\* the first record of the list is among its most recently uploaded
NewestFirst ==
  \A i \in 1..Len(documents) : documents[i].uploaded_at <= documents[1].uploaded_at

\* C20 as stated: after every successful upload the first element of the
\* local list has the greatest uploaded_at among the list's entries, also for
\* uploads whose calls overlap.  It fails when the upload whose row was
\* inserted first is the last to put its record in front.
NewestFirstAfterAnyUpload ==
  (Completed("upload") /\ finished.failed = "none") => NewestFirst

\* C20, amended: after every successful upload that no other call of the
\* store overlapped, the first element of the local list has the greatest
\* uploaded_at among the list's entries.
NewestFirstAfterUploadAlone ==
  (Completed("upload") /\ finished.failed = "none" /\ alone) => NewestFirst

NewestFirstReached ==
  /\ Completed("upload") /\ finished.failed = "none" /\ alone
  /\ Len(documents) >= 3
  /\ \A i \in 2..Len(documents) : documents[i].uploaded_at < documents[1].uploaded_at

\* the step is the start of an upload
StartsUpload == started' # started /\ calls'[started'].op = "upload"

\* the step completes an upload whose storage upload and insert both succeeded
CompletesUploadWell ==
  /\ finished'.pc = "done" /\ finished'.op = "upload"
  /\ finished'.failed = "none"
  /\ finished'.issued = <<"upload", "insert">>
  /\ ~finished'.resp.error.present

\* C21: in every reachable state uploadProgress is either 0 or 100; each
\* upload resets it to 0 when it starts, and it is set to 100 only by the
\* completion of an upload whose blob upload and metadata insert both
\* succeeded; so the progress bar's condition, a value strictly between 0
\* and 100, never holds.
ProgressZeroOrHundred ==
  /\ [](uploadProgress \in {0, 100})
  /\ [](~(0 < uploadProgress /\ uploadProgress < 100))
  /\ [][StartsUpload => uploadProgress' = 0]_vars
  /\ [][(uploadProgress' # uploadProgress) =>
          \/ StartsUpload /\ uploadProgress' = 0
          \/ CompletesUploadWell /\ uploadProgress' = 100]_vars

\* an upload has reset the 100 an earlier upload left
ProgressResetReached ==
  /\ uploadProgress = 0
  /\ \E i \in 1..Len(documents) : documents[i] \in table \ InitialRows
  /\ \E c \in InFlight : calls[c].op = "upload" /\ calls[c].pc = "sent"
                          /\ calls[c].req = "upload"

\* no two entries of the list have the same id
Distinct(list) ==
  \A i \in 1..Len(list), j \in 1..Len(list) : list[i].id = list[j].id => i = j

\* C22 as stated: in every reachable state, under any interleaving of fetch,
\* upload and delete calls, the local list has no two entries with the same
\* id (the table gives every row an id of its own).  It fails when a fetch,
\* answered after an upload's insert, completes before the upload does: the
\* upload then puts in front a record the list already holds.
NoDuplicateIds == Distinct(documents)

\* C22, amended: a list without duplicate ids stays so at every step except
\* the completion of an upload that another call overlapped, and the list a
\* successful fetch leaves has no duplicate ids.
NoDuplicateIdsUnlessOverlapped ==
  /\ [][Distinct(documents) =>
          \/ Distinct(documents')
          \/ finished'.pc = "done" /\ finished'.op = "upload" /\ ~alone']_vars
  /\ []((Completed("fetch") /\ finished.failed = "none") => Distinct(documents))

\* a fetch that followed an upload lists the uploaded record once
ListedOnceReached ==
  /\ Completed("fetch") /\ finished.failed = "none" /\ alone
  /\ Len(documents) >= 2
  /\ \E i \in 1..Len(documents) : documents[i] \in table \ InitialRows
  /\ Distinct(documents)

(***************************************************************************)
(* Uploads and deletes made after a first fetchDocuments("A") has          *)
(* completed, as when the panel has mounted: the list holds the rows of    *)
(* symbol root A, newest first.                                            *)
(***************************************************************************)
MountedList == OrderDescending(Selected(InitialRows, <<"A">>, None))

MountedInit ==
  /\ documents = MountedList
  /\ isLoading = FALSE
  /\ error = NullError
  /\ uploadProgress = 0
  /\ table = InitialRows
  /\ blobs = {r.storage_path : r \in InitialRows}
  /\ nextId = 4
  /\ now = 4
  /\ read = FALSE
  /\ calls = [c \in Calls |-> IdleFrame]
  /\ started = 0
  /\ finished = IdleFrame
  /\ alone = TRUE
  /\ prevDocuments = MountedList
  /\ scope = Some(Filter(<<"A">>, None))
  /\ trial = Unused
  /\ panel = Unused

MountedNext ==
  \/ \E c \in DOMAIN calls, a \in UploadArgs : UploadStart(c, a[1], a[2], a[3], a[4])
  \/ \E c \in DOMAIN calls : ServeUpload(c)
  \/ \E c \in DOMAIN calls : UploadAfterStorage(c)
  \/ \E c \in DOMAIN calls : ServeInsert(c)
  \/ \E c \in DOMAIN calls : UploadAfterInsert(c)
  \/ \E c \in DOMAIN calls, d \in Rows(documents) : DeleteStart(c, d)
  \/ \E c \in DOMAIN calls : ServeRemove(c)
  \/ \E c \in DOMAIN calls : DeleteAfterStorage(c)
  \/ \E c \in DOMAIN calls : ServeDelete(c)
  \/ \E c \in DOMAIN calls : DeleteAfterRow(c)

MountedSpec == MountedInit /\ [][MountedNext]_vars

\* two calls have been made and have completed: an upload that inserted its
\* row and a delete that removed the row of a record of the mounted list
PairDone ==
  /\ InFlight = {}
  /\ started = 2
  /\ error = NullError
  /\ Cardinality(table \ InitialRows) = 1
  /\ Cardinality(InitialRows \ table) = 1

Uploaded == CHOOSE r \in table \ InitialRows : TRUE

Deleted == CHOOSE r \in InitialRows \ table : TRUE

\* C23: for an upload of a new record and a delete of a different, listed
\* record, with no fetch in flight and every request succeeding, the final
\* list is the same whether the calls overlap, in whatever order their
\* answers arrive, or run one after the other: the previous list with the
\* new record prepended and the deleted record removed.
UploadAndDeleteCommute ==
  PairDone =>
    documents = <<Uploaded>> \o
                  SelectSeq(MountedList, LAMBDA doc : doc.id # Deleted.id)

\* the calls overlapped and the upload was the last to write the list
UploadAfterDeleteReached ==
  /\ PairDone
  /\ ~alone
  /\ Completed("upload")
  /\ prevDocuments = SelectSeq(MountedList, LAMBDA doc : doc.id # Deleted.id)
  /\ Len(documents) = 2
  /\ documents[1] = Uploaded

(***************************************************************************)
(* The calls of a mounted panel with the scheduling that lets calls end:   *)
(* a request that has been sent is answered, with success or failure, and  *)
(* the event loop runs the code that waits for an answer that has          *)
(* arrived.  Nothing obliges a caller to make a call.                      *)
(***************************************************************************)
\* the remote service answers call c's request
Answer(c) ==
  \/ ServeSelect(c)
  \/ ServeUpload(c)
  \/ ServeInsert(c)
  \/ ServeDownload(c)
  \/ ServeRemove(c)
  \/ ServeDelete(c)

\* the code of call c that waits for the answer runs
Continue(c) ==
  \/ FetchResume(c)
  \/ UploadAfterStorage(c)
  \/ UploadAfterInsert(c)
  \/ DownloadResume(c)
  \/ DeleteAfterStorage(c)
  \/ DeleteAfterRow(c)

\* the calls a mounted panel makes for its symbol root, a call being made
\* while at most one other is in flight
PanelNext ==
  \/ \E c \in DOMAIN calls :
       Pairwise /\ FetchStart(c, PanelUpload[2], None)
  \/ \E c \in DOMAIN calls :
       Pairwise /\ UploadStart(c, PanelUpload[1], PanelUpload[2],
                               PanelUpload[3], PanelUpload[4])
  \/ \E c \in DOMAIN calls, d \in Rows(documents) : Pairwise /\ DownloadStart(c, d)
  \/ \E c \in DOMAIN calls, d \in Rows(documents) : Pairwise /\ DeleteStart(c, d)
  \/ \E c \in DOMAIN calls : Answer(c)
  \/ \E c \in DOMAIN calls : Continue(c)

FairSpec ==
  /\ MountedInit
  /\ [][PanelNext]_vars
  /\ \A c \in Calls : WF_vars(Answer(c)) /\ WF_vars(Continue(c))

\* C24: if every remote call eventually returns, with success or failure,
\* every started fetch, upload, delete and download eventually completes,
\* and whenever no fetch, upload or delete is in flight isLoading is false.
CallsComplete ==
  /\ \A c \in Calls : (calls[c].pc \in {"sent", "replied"}) ~> (calls[c].pc = "done")
  /\ []((\A c \in DOMAIN calls : ~Loading(c)) => isLoading = FALSE)

\* two overlapping calls have both completed, the upload last and one of
\* them with a failure
AllCompletedReached ==
  /\ started = 2
  /\ ~alone
  /\ InFlight = {}
  /\ isLoading = FALSE
  /\ error # NullError
  /\ Completed("upload")


(***************************************************************************)
(* The upload form of the Documents panel: a panel mounted for symbol root *)
(* "A" and user "u" has fetched its list; the user opens and closes the    *)
(* upload dialog, selects a file, clicks Upload, which is disabled while   *)
(* no file is selected or isLoading is true, and clicks the rows' delete   *)
(* and download buttons, which the open dialog's overlay covers.           *)
(***************************************************************************)
FormList == OrderDescending(Selected(InitialRows, PanelUpload[2], Some(PanelUpload[3])))

FormStart ==
  [ stage |-> "form", showUploadDialog |-> FALSE, selectedFile |-> None,
    description |-> <<>> ]

FormInit ==
  /\ documents = FormList
  /\ isLoading = FALSE
  /\ error = NullError
  /\ uploadProgress = 0
  /\ table = InitialRows
  /\ blobs = {r.storage_path : r \in InitialRows}
  /\ nextId = 4
  /\ now = 4
  /\ read = FALSE
  /\ calls = [c \in 1..(MaxCalls + 1) |-> IdleFrame]
  /\ started = 0
  /\ finished = IdleFrame
  /\ alone = TRUE
  /\ prevDocuments = FormList
  /\ scope = Some(Filter(PanelUpload[2], Some(PanelUpload[3])))
  /\ trial = Unused
  /\ panel = FormStart

\* a step of the panel that leaves the composable alone
FormOnly ==
  UNCHANGED <<store, remote, clock, calls, started, finished, alone,
              prevDocuments, scope, trial>>

\* uploadDocument has returned to handleUpload, whose code after the await
\* runs before the panel handles another event
ResetDue == finished.pc = "done" /\ finished.op = "upload"

openUploadDialog ==
  /\ ~ResetDue
  /\ ~panel.showUploadDialog
  /\ panel' = [panel EXCEPT !.showUploadDialog = TRUE]
  /\ FormOnly

\* the Cancel button and a click on the overlay: showUploadDialog = false
CancelUpload ==
  /\ ~ResetDue
  /\ panel.showUploadDialog
  /\ panel' = [panel EXCEPT !.showUploadDialog = FALSE]
  /\ FormOnly

handleFileSelect ==
  /\ ~ResetDue
  /\ panel.showUploadDialog
  /\ panel' = [panel EXCEPT !.selectedFile = Some(PanelUpload[1])]
  /\ FormOnly

\* :disabled="!selectedFile || isLoading"
UploadDisabled == panel.selectedFile = None \/ isLoading

\* description.value || undefined
DescriptionOrUndefined == IF panel.description = <<>> THEN None ELSE Some(panel.description)

\* a click on Upload: handleUpload up to its await
handleUpload(c) ==
  /\ ~ResetDue
  /\ panel.showUploadDialog
  /\ ~UploadDisabled
  /\ panel.selectedFile # None /\ Truthy(Some(PanelUpload[3]))
  /\ UploadStart(c, panel.selectedFile[1], PanelUpload[2], PanelUpload[3],
                 DescriptionOrUndefined)

\* handleUpload after its await: uploadDocument returned, a record or null
handleUploadResume ==
  /\ ResetDue
  /\ panel' = [panel EXCEPT !.selectedFile = None, !.description = <<>>,
                            !.showUploadDialog = FALSE]
  /\ finished' = IdleFrame
  /\ UNCHANGED <<store, remote, clock, calls, started, alone,
                 prevDocuments, scope, trial>>

\* a click on a row's button reaches the table when no dialog covers it
RowClick == ~ResetDue /\ ~panel.showUploadDialog

FormNext ==
  \/ openUploadDialog
  \/ CancelUpload
  \/ handleFileSelect
  \/ \E c \in DOMAIN calls : Pairwise /\ handleUpload(c)
  \/ handleUploadResume
  \/ \E c \in DOMAIN calls, d \in Rows(documents) :
       Pairwise /\ RowClick /\ DownloadStart(c, d)
  \/ \E c \in DOMAIN calls, d \in Rows(documents) :
       Pairwise /\ RowClick /\ DeleteStart(c, d)
  \/ \E c \in DOMAIN calls : ~ResetDue /\ Answer(c)
  \/ \E c \in DOMAIN calls : ~ResetDue /\ Continue(c)

FormSpec == FormInit /\ [][FormNext]_vars

\* the upload calls in flight; the panel makes them in handleUpload only
UploadsInFlight == {c \in InFlight : calls[c].op = "upload"}

\* C25: uploads started through the panel never overlap: at any time at
\* most one upload call issued by handleUpload is in flight, whatever
\* deletes and downloads the user starts from the rows meanwhile.
PanelUploadsNeverOverlap == Cardinality(UploadsInFlight) <= 1


(***************************************************************************)
(* The preview dialog over the panel's lifetime: the View button of the    *)
(* row is clicked again once the dialog is closed and the preview's        *)
(* download has been dealt with, and the panel is unmounted.               *)
(***************************************************************************)
\* views are clicked again while the previews so far have left fewer than
\* MaxPreviews object URLs and alerts
MaxPreviews == 2

\* cellClick on the View button of a row whose preview was opened before;
\* the open dialog's overlay covers the table
ViewAgain ==
  /\ panel.stage = "viewing"
  /\ ~panel.showViewDialog
  /\ panel.request = "done"
  /\ Cardinality(panel.urls) + panel.alerts < MaxPreviews
  /\ viewDocument
  /\ PanelOnly

\* onBeforeUnmount: the object URL in documentUrl, if any, is revoked; a
\* preview's download that is in flight is still answered afterwards
Unmount ==
  /\ panel.stage \in {"shown", "refused", "viewing"}
  /\ panel' = [panel EXCEPT
                 !.stage = "unmounted",
                 !.urls = IF panel.documentUrl # None
                            THEN @ \ {panel.documentUrl[1]} ELSE @]
  /\ PanelOnly

PreviewNext ==
  \/ FormatActions
  \/ ClickView
  \/ CallView
  \/ ServePreview
  \/ ViewResume
  \/ closeViewDialog
  \/ ViewAgain
  \/ Unmount

PreviewSpec == ViewInit /\ [][PreviewNext]_vars

\* no download of a preview is awaited by viewDocument
NoPreviewInFlight == panel.request \in {"none", "done"}

\* C26: every object URL made by viewDocument is revoked by closeViewDialog
\* or on unmount: whenever the view dialog is closed and no preview download
\* is in flight, documentUrl is null and no unrevoked preview URL exists.
PreviewUrlsRevoked ==
  (~panel.showViewDialog /\ NoPreviewInFlight) =>
    (panel.documentUrl = None /\ panel.urls = {})

\* a preview URL that nothing revokes any more: the panel is unmounted and
\* an object URL is left
PreviewUrlLeaked ==
  panel.stage = "unmounted" /\ NoPreviewInFlight /\ panel.urls # {}

====
